---------------------------- MODULE Spec2Model ----------------------------
(***************************************************************************)
(* jQuery Date Range (src/jquery.daterange.js): the rule arithmetic        *)
(* (dateOffset, invertRule, startOfRange) and the widget's state handlers  *)
(* (construction, rule selection, up/down navigation, setState).           *)
(*                                                                         *)
(* Representation.                                                         *)
(*  - A Date object is its time value in minutes of local time since       *)
(*    1970-01-01 00:00; the local zone has a fixed offset (no daylight     *)
(*    saving change), so local civil arithmetic is plain arithmetic.       *)
(*    null (toDate of a non-matching string) is NullDate.                  *)
(*  - An input value 'YYYY-MM-DD' is the integer YYYYMMDD; the empty       *)
(*    string is EmptyVal.  dateToVal and toDate convert through the civil  *)
(*    calendar as the code does.                                           *)
(*  - A rule token is a string; RuleMatches is the regular expression of      *)
(*    dateOffset over the finite universe of tokens used here.             *)
(***************************************************************************)
EXTENDS Integers, Sequences, FiniteSets, TLC

VARIABLES
    pc,        \* "load" | "idle" | "call" | "hung" (page script position), "fn"
    today,     \* the day number new Date() yields
    w,         \* widget per matched element: closure variables and DOM state
    data,      \* the object the host passes to setState
    served,    \* widgets whose setState handler has already run on data
    ret,       \* return value of the last setState handler
    removed,   \* names the last setState handler deleted from data
    sorRule,   \* rule the last handler passed to startOfRange ("" if none)
    clicks,    \* number of up/down clicks so far
    calls,     \* number of objects handed to setState so far
    fn         \* pure-function harness: arguments and results

vars == <<pc, today, w, data, served, ret, removed, sorRule, clicks, calls, fn>>

-----------------------------------------------------------------------------
(* Calendar: what the native Date does with local civil fields.            *)

MinPerDay == 1440

NoonMin == 720

NullDate == 0

EmptyVal == 0

\* Day number of civil y-m-d (m in 1..12), proleptic Gregorian.
DaysOfEra(era, yoe, doy) ==
    era * 146097 + yoe * 365 + yoe \div 4 - yoe \div 100 + doy - 719468

DaysOfYear(yy, doy) == DaysOfEra(yy \div 400, yy % 400, doy)

DaysFromCivil(y, m, d) ==
    DaysOfYear(IF m <= 2 THEN y - 1 ELSE y,
               (153 * (IF m > 2 THEN m - 3 ELSE m + 9) + 2) \div 5 + d - 1)

\* Civil fields of a day number.
CivilOfMonth(yy, mp, doy) ==
    [y |-> IF mp < 10 THEN yy ELSE yy + 1,
     m |-> IF mp < 10 THEN mp + 3 ELSE mp - 9,
     d |-> doy - (153 * mp + 2) \div 5 + 1]

CivilOfDoy(yy, doy) == CivilOfMonth(yy, (5 * doy + 2) \div 153, doy)

CivilOfYoe(era, doe, yoe) ==
    CivilOfDoy(yoe + era * 400, doe - (365 * yoe + yoe \div 4 - yoe \div 100))

CivilOfDoe(era, doe) ==
    CivilOfYoe(era, doe,
               (doe - doe \div 1460 + doe \div 36524 - doe \div 146096) \div 365)

CivilFromDays(z) == CivilOfDoe((z + 719468) \div 146097, (z + 719468) % 146097)

DayOf(t) == t \div MinPerDay

TimeOfDay(t) == t % MinPerDay

getFullYear(t) == CivilFromDays(DayOf(t)).y

\* 0..11
getMonth(t) == CivilFromDays(DayOf(t)).m - 1

getDate(t) == CivilFromDays(DayOf(t)).d

\* 0 = Sunday; 1970-01-01 was a Thursday.
getDay(t) == (DayOf(t) + 4) % 7

\* new Date(y, month, d, 12) and the setters: the day is counted from the
\* first of the month, so a day past the month's end overflows into the next.
MakeDate(y, month, d, tod) ==
    (DaysFromCivil(y, month + 1, 1) + d - 1) * MinPerDay + tod

setFullYear(t, y) == MakeDate(y, getMonth(t), getDate(t), TimeOfDay(t))

setMonth(t, month) == MakeDate(getFullYear(t), month, getDate(t), TimeOfDay(t))

setDate(t, d) == MakeDate(getFullYear(t), getMonth(t), d, TimeOfDay(t))

\* setHours(12); setMinutes(0); setSeconds(0); setMilliseconds(0)
Noon(t) == DayOf(t) * MinPerDay + NoonMin

-----------------------------------------------------------------------------
(* Input values.                                                           *)

\* toDate: /^(\d{4})-(\d{2})-(\d{2})$/ then new Date(y, m-1, d, 12).
toDate(value) ==
    IF value = EmptyVal THEN NullDate
    ELSE MakeDate(value \div 10000, ((value \div 100) % 100) - 1, value % 100, NoonMin)

\* dateToVal: zero-padded year-month-day of the local date.
dateToVal(date) ==
    getFullYear(date) * 10000 + (getMonth(date) + 1) * 100 + getDate(date)

-----------------------------------------------------------------------------
(* Rules.                                                                  *)

\* Default configuration (ranges, initRange).
ranges == <<"+1d", "+7d", "+14d", "+0.5m", "+1m", "+2m", "+3m", "+6m", "+1y", "+0">>

\* Indexes are 0-based in the code: ranges[initRange] is RangeAt(initRange).
RangeAt(i) == ranges[i + 1]

DefaultInitRange == 4

Sentinel == "+0"

\* Groups of /^([+\-])(\d+)(\.\d+)?([dmy])$/ : sign, digits, decimal part
\* num/den (den = 0 when the group is absent), unit.
Tok(s, i, n, dn, u) == [sign |-> s, digits |-> i, num |-> n, den |-> dn, unit |-> u]

\* The tokens used here and their groups.  '+0' and '-0' carry no unit and
\* therefore do not match the expression.
Grammar ==
    [t \in {"+1d", "-1d", "+7d", "-7d", "+14d", "-14d", "+0.5m", "-0.5m",
            "+1m", "-1m", "+2m", "-2m", "+3m", "-3m", "+6m", "-6m",
            "+13m", "-13m", "+1y", "-1y", "+2y", "-2y", "+0d", "-0d",
            "+0.4d", "-0.4d", "+0", "-0"} |->
        CASE t = "+1d"   -> Tok( 1, 1, 0, 0, "d")
          [] t = "-1d"   -> Tok(-1, 1, 0, 0, "d")
          [] t = "+7d"   -> Tok( 1, 7, 0, 0, "d")
          [] t = "-7d"   -> Tok(-1, 7, 0, 0, "d")
          [] t = "+14d"  -> Tok( 1, 14, 0, 0, "d")
          [] t = "-14d"  -> Tok(-1, 14, 0, 0, "d")
          [] t = "+0.5m" -> Tok( 1, 0, 5, 10, "m")
          [] t = "-0.5m" -> Tok(-1, 0, 5, 10, "m")
          [] t = "+1m"   -> Tok( 1, 1, 0, 0, "m")
          [] t = "-1m"   -> Tok(-1, 1, 0, 0, "m")
          [] t = "+2m"   -> Tok( 1, 2, 0, 0, "m")
          [] t = "-2m"   -> Tok(-1, 2, 0, 0, "m")
          [] t = "+3m"   -> Tok( 1, 3, 0, 0, "m")
          [] t = "-3m"   -> Tok(-1, 3, 0, 0, "m")
          [] t = "+6m"   -> Tok( 1, 6, 0, 0, "m")
          [] t = "-6m"   -> Tok(-1, 6, 0, 0, "m")
          [] t = "+13m"  -> Tok( 1, 13, 0, 0, "m")
          [] t = "-13m"  -> Tok(-1, 13, 0, 0, "m")
          [] t = "+1y"   -> Tok( 1, 1, 0, 0, "y")
          [] t = "-1y"   -> Tok(-1, 1, 0, 0, "y")
          [] t = "+2y"   -> Tok( 1, 2, 0, 0, "y")
          [] t = "-2y"   -> Tok(-1, 2, 0, 0, "y")
          [] t = "+0d"   -> Tok( 1, 0, 0, 0, "d")
          [] t = "-0d"   -> Tok(-1, 0, 0, 0, "d")
          [] t = "+0.4d" -> Tok( 1, 0, 4, 10, "d")
          [] t = "-0.4d" -> Tok(-1, 0, 4, 10, "d")
          [] t = "+0"    -> Tok( 1, 0, 0, 0, "")
          [] t = "-0"    -> Tok(-1, 0, 0, 0, "")]

Tokens == DOMAIN Grammar

\* The expression matches exactly the tokens that end in a unit.
RuleMatches(offset) == offset \in Tokens /\ Grammar[offset].unit \in {"d", "m", "y"}

\* A rule taken as its own inverse.
sameRule(rule) == rule

\* invertRule: '+' becomes '-', anything else becomes '+'; the rest is kept.
invertRule(rule) ==
    LET g == Grammar[rule]
        s == IF g.sign = 1 THEN -1 ELSE 1
    IN  CHOOSE t \in Tokens : Grammar[t] = [g EXCEPT !.sign = s]

\* The % operator of the language: the remainder has the dividend's sign.
JsRem(a, b) == IF a >= 0 THEN a % b ELSE -((-a) % b)

\* "Overflow manually, knowing we're % 12": <<year, month>>.
Overflow(year, month) ==
    IF month < 0 THEN <<year - 1, month + 12>>
    ELSE IF month > 11 THEN <<year + 1, month - 12>>
    ELSE <<year, month>>

\* msec + ((tmp - msec) * sizeDec), as setTime stores it (an integral time).
Interpolate(msec, tmp, g) == msec + ((tmp - msec) * g.num) \div g.den

\* sizeDec !== 0
HasDec(g) == g.den # 0 /\ g.num # 0

\* unit 'm', integer section: <<year, month>> after the manual overflow.
WholeMonths(date, sizeInt) ==
    Overflow(getFullYear(date) + (sizeInt - JsRem(sizeInt, 12)) \div 12,
             getMonth(date) + JsRem(sizeInt, 12))

\* "Save intermediate": date.setFullYear(year); date.setMonth(month).
SaveMonths(date, ym) == setMonth(setFullYear(date, ym[1]), ym[2])

\* Cheat to "snap" around 1st of the month.
Snap(date) == IF getDate(date) <= 2 THEN setDate(date, 1) ELSE date

\* unit 'm', decimal section: tmp is one more month away (month += single).
DecimalMonths(msec, ym, g) ==
    Snap(Interpolate(msec, setFullYear(setMonth(msec, ym[2]), ym[1]), g))

MonthsFrom(date, g, ym) ==
    IF HasDec(g)
    THEN DecimalMonths(SaveMonths(date, ym), Overflow(ym[1], ym[2] + g.sign), g)
    ELSE SaveMonths(date, ym)

OffsetMonths(date, g) == MonthsFrom(date, g, WholeMonths(date, g.sign * g.digits))

\* unit 'y', decimal section: tmp is one more year away.
DecimalYears(msec, g) ==
    IF HasDec(g)
    THEN Interpolate(msec, setFullYear(msec, getFullYear(msec) + g.sign), g)
    ELSE msec

\* unit 'y'
OffsetYears(date, g) ==
    DecimalYears(IF g.digits # 0
                 THEN setFullYear(date, getFullYear(date) + g.sign * g.digits)
                 ELSE date, g)

\* unit 'd': date.getTime() + msDay * sizeFloat
OffsetDays(date, g) ==
    IF g.den = 0 THEN date + MinPerDay * g.sign * g.digits
    ELSE date + (MinPerDay * g.sign * (g.digits * g.den + g.num)) \div g.den

\* The branch of the unit; a token that does not match moves nothing.
Moved(date, offset, g) ==
    IF ~RuleMatches(offset) THEN date
    ELSE CASE g.unit = "d" -> OffsetDays(date, g)
           [] g.unit = "m" -> OffsetMonths(date, g)
           [] g.unit = "y" -> OffsetYears(date, g)

\* Modify a date according to offset specification.
dateOffset(date, offset) == Noon(Moved(date, offset, Grammar[offset]))

-----------------------------------------------------------------------------
(* startOfRange.                                                           *)

\* The call does not return (its loop never ends).
Diverges == -1

\* new Date()
NewDate == today * MinPerDay + NoonMin

\* tmp after setMonth(0), setDate(1), noon: January 1st of the current year.
YearStart == Noon(setDate(setMonth(NewDate, 0), 1))

\* "If we want weeks, start year on a Sunday": date++ ; tmp.setDate(date).
RECURSIVE FirstSunday(_, _)
FirstSunday(tmp, date) ==
    IF getDay(tmp) = 0 THEN tmp ELSE FirstSunday(setDate(tmp, date + 1), date + 1)

\* The tiling started on January 1st whatever the rule.
JanuaryFirst(rule) == YearStart

TilingStart(rule) ==
    IF rule = "+7d" \/ rule = "+14d" THEN FirstSunday(YearStart, 1) ELSE YearStart

\* Passes of the loop are explored up to 2^LoopDepth.
LoopDepth == 10

\* while (tmp <= now) { tmp = dateOffset(tmp, rule); }, at most 2^k passes
\* (the passes are halved so that the evaluation nests k deep, not 2^k).
RECURSIVE Passes(_, _, _, _)
Passes(tmp, now, rule, k) ==
    IF ~(tmp <= now) THEN tmp
    ELSE IF k = 0 THEN dateOffset(tmp, rule)
    ELSE Passes(Passes(tmp, now, rule, k - 1), now, rule, k - 1)

\* tmp when the loop has ended; a loop still running after all the passes
\* explored does not end.
Ended(tmp, now) == IF tmp <= now THEN Diverges ELSE tmp

\* The loop.  A pass that leaves tmp where it was repeats for ever.
Advance(tmp, now, rule) ==
    IF tmp <= now /\ dateOffset(tmp, rule) = tmp THEN Diverges
    ELSE Ended(Passes(tmp, now, rule, LoopDepth), now)

\* "We couldn't avoid looping once too far".
BackOnce(tmp, backRule) ==
    IF tmp = Diverges THEN Diverges ELSE dateOffset(tmp, backRule)

\* Beginning of range we fit in according to rule.
startOfRange(now, rule) ==
    BackOnce(Advance(TilingStart(rule), now, rule), invertRule(rule))

-----------------------------------------------------------------------------
(* The widget.  A widget is the record of its closure variables and of the *)
(* values, properties and attachment of its DOM elements:                  *)
(*   rule      outer.prop('__rule')                                        *)
(*   from, to  from.val(), to.val()                                        *)
(*   toMin     to.prop('min');  fromMax  from.prop('max')                  *)
(*   navBar    the up/down buttons are attached to the widget              *)
(*   previous  the configuration flag                                      *)
(*   fromName, toName   the name attributes of the two inputs              *)
(* The label text, the submit button and the styling are presentation and  *)
(* are not part of the state.  The values handled here are non-empty once  *)
(* the widget is constructed, so updateLabel never reaches its "Inputs     *)
(* aren't initialized" branch, the only one that touches other elements.   *)

selectName == "__daterange"

\* updateTo, rule !== '+0' and from set: to and from.max become tmp.
SetTo(wr, tmp) == [wr EXCEPT !.to = tmp, !.fromMax = tmp]

\* to set to dateOffset(from, rule) itself, the first day of the next range.
updateToNextStart(wr) ==
    IF wr.rule # Sentinel /\ wr.from # EmptyVal
    THEN SetTo([wr EXCEPT !.toMin = wr.from],
               dateToVal(dateOffset(toDate(wr.from), wr.rule)))
    ELSE [wr EXCEPT !.toMin = wr.from]

\* updateTo
updateTo(wr) ==
    IF wr.rule # Sentinel
    THEN IF wr.from # EmptyVal
         THEN SetTo([wr EXCEPT !.toMin = wr.from],
                    dateToVal(dateOffset(toDate(wr.from), wr.rule) - MinPerDay))
         ELSE [wr EXCEPT !.toMin = wr.from, !.to = wr.from, !.fromMax = wr.from]
    ELSE [wr EXCEPT !.toMin = wr.from]

\* if (previous) { tmp = dateOffset(tmp, invertRule(rule)); }
Previous(tmp, previous, rule) ==
    IF previous THEN dateOffset(tmp, invertRule(rule)) ELSE tmp

\* The from value the select change handler computes on a bona fide change
\* between two non-sentinel rules.
Realigned(wr, newRule) ==
    dateToVal(Previous(startOfRange(toDate(wr.from), newRule), wr.previous, newRule))

\* select.change handler on a bona fide change: the navigation bar.
ChangeNavBar(wr, oldRule, newRule) ==
    IF oldRule = Sentinel
    THEN (IF wr.from # EmptyVal THEN [wr EXCEPT !.navBar = TRUE] ELSE wr)
    ELSE IF newRule = Sentinel THEN [wr EXCEPT !.navBar = FALSE]
    ELSE wr

\* select.change handler on a bona fide change: from, then to.
ChangeRange(wr, oldRule, newRule) ==
    IF newRule = Sentinel THEN wr
    ELSE IF oldRule = Sentinel THEN updateTo(wr)
    ELSE updateTo([wr EXCEPT !.from = Realigned(wr, newRule)])

\* select.change handler: [w |-> the widget after it, sor |-> the rule it
\* passed to startOfRange, "" if it made no call].
SelectChange(wr, newRule) ==
    IF newRule # wr.rule
    THEN [w   |-> ChangeRange(ChangeNavBar([wr EXCEPT !.rule = newRule],
                                           wr.rule, newRule), wr.rule, newRule),
          sor |-> IF wr.rule # Sentinel /\ newRule # Sentinel THEN newRule ELSE ""]
    ELSE [w |-> wr, sor |-> ""]

\* delete data[name]
Delete(d, name) == [k \in (DOMAIN d) \ {name} |-> d[k]]

\* data[name] !== undefined
Has(d, name) == name \in DOMAIN d

\* A handler that deletes a key only where its value differed.
ConsumedIfChanged(st, name, ch, wr, sor) ==
    [w       |-> IF ch THEN wr ELSE st.w,
     data    |-> IF ch THEN Delete(st.data, name) ELSE st.data,
     changed |-> st.changed \/ ch,
     removed |-> IF ch THEN st.removed \cup {name} ELSE st.removed,
     sor     |-> IF ch /\ sor # "" THEN sor ELSE st.sor]

\* A handler that reports a change for every key it finds.
ConsumedAsChange(st, name, ch, wr, sor) ==
    [w       |-> IF ch THEN wr ELSE st.w,
     data    |-> Delete(st.data, name),
     changed |-> TRUE,
     removed |-> st.removed \cup {name},
     sor     |-> IF ch /\ sor # "" THEN sor ELSE st.sor]

\* The handler's variables after a key has been looked at: changed is set
\* if the value differed, the key is deleted in either case.
Consumed(st, name, ch, wr, sor) ==
    [w       |-> IF ch THEN wr ELSE st.w,
     data    |-> Delete(st.data, name),
     changed |-> st.changed \/ ch,
     removed |-> st.removed \cup {name},
     sor     |-> IF ch /\ sor # "" THEN sor ELSE st.sor]

\* select.val(data[selectName]); select.change();
RuleChanged(st, sc) == Consumed(st, selectName, TRUE, sc.w, sc.sor)

\* setState handler, first key: the rule.
SetRuleKey(st) ==
    IF Has(st.data, selectName)
    THEN IF st.w.rule # st.data[selectName]
         THEN RuleChanged(st, SelectChange(st.w, st.data[selectName]))
         ELSE Consumed(st, selectName, FALSE, st.w, "")
    ELSE st

\* from.val(v); to.prop('min', v);
WithFrom(wr, v) == [wr EXCEPT !.from = v, !.toMin = v]

\* to.val(v); from.prop('max', v);
WithTo(wr, v) == [wr EXCEPT !.to = v, !.fromMax = v]

\* setState handler, second key: from.
SetFromKey(st) ==
    IF Has(st.data, st.w.fromName)
    THEN Consumed(st, st.w.fromName, st.data[st.w.fromName] # st.w.from,
                  WithFrom(st.w, st.data[st.w.fromName]), "")
    ELSE st

\* setState handler, third key: to.
SetToKey(st) ==
    IF Has(st.data, st.w.toName)
    THEN Consumed(st, st.w.toName, st.data[st.w.toName] # st.w.to,
                  WithTo(st.w, st.data[st.w.toName]), "")
    ELSE st

\* outer.on('setState', ...): the widget, the object, the return value
\* (changed), the names deleted and the rule passed to startOfRange.
setState(wr, d) ==
    SetToKey(SetFromKey(SetRuleKey(
        [w |-> wr, data |-> d, changed |-> FALSE, removed |-> {}, sor |-> ""])))

\* goUp.click / goDown.click: from moves by the rule, or by its inverse.
Navigate(wr, rule) ==
    updateTo([wr EXCEPT !.from = dateToVal(dateOffset(toDate(wr.from), rule))])

\* The element before the widget is built: the values of its two inputs.
Unbuilt(cfg) ==
    [rule |-> "", from |-> cfg.from, to |-> cfg.to,
     toMin |-> EmptyVal, fromMax |-> EmptyVal, navBar |-> FALSE,
     previous |-> cfg.previous, fromName |-> cfg.fromName, toName |-> cfg.toName]

\* The selected option: data-select if given ("" when absent), else initRange.
InitRule(cfg) == IF cfg.dataSelect # "" THEN cfg.dataSelect ELSE RangeAt(cfg.initRange)

\* from.val(startVal); to.prop('min', startVal); the rule; the navigation
\* bar; updateTo().
Built(cfg, startVal) ==
    updateTo([Unbuilt(cfg) EXCEPT !.rule = InitRule(cfg), !.from = startVal,
                                  !.toMin = startVal,
                                  !.navBar = (InitRule(cfg) # Sentinel
                                              /\ startVal # EmptyVal)])

\* hung: the call of startOfRange at construction does not return.
BuildFrom(cfg, startObj) ==
    IF startObj = Diverges
    THEN [hung |-> TRUE, sor |-> RangeAt(cfg.initRange), w |-> Unbuilt(cfg)]
    ELSE [hung |-> FALSE, sor |-> RangeAt(cfg.initRange),
          w |-> Built(cfg, dateToVal(Previous(startObj, cfg.previous,
                                              RangeAt(cfg.initRange))))]

\* "Allow form to override today's date"
StartObj(cfg) == IF cfg.from # EmptyVal THEN toDate(cfg.from) ELSE NewDate

\* Construction of one widget from its element: the values of the two
\* inputs, the data-select attribute and the configuration.
Build(cfg) ==
    BuildFrom(cfg, startOfRange(Noon(StartObj(cfg)), RangeAt(cfg.initRange)))

-----------------------------------------------------------------------------
(* Bounds and inputs.                                                      *)

\* Up/down clicks explored.
MaxClicks == 1

\* Objects handed to setState explored.
MaxCalls == 1

\* Days of reference dates explored by the function harness.
FnSpan == 460

\* The day the page runs.
Todays == {DaysFromCivil(2016, 2, 20)}

\* 'YYYY-MM-DD' of a day number.
ValOfDay(day) == dateToVal(day * MinPerDay + NoonMin)

\* Values the from input may carry in the page: none, or a day of the year
\* before.
HtmlDates == {EmptyVal, ValOfDay(today - 60)}

\* data-select: absent, or a value of the select.
DataSelects == {"", "+0"}

\* args.initRange: a non-zero index of ranges (0 is falsy and keeps the default).
InitRanges == {DefaultInitRange, 9}

FromNameOf(i) == IF i = 1 THEN "from" ELSE "from2"

ToNameOf(i) == IF i = 1 THEN "to" ELSE "to2"

Cfgs(i) ==
    [from : HtmlDates, to : {EmptyVal}, dataSelect : DataSelects,
     initRange : InitRanges, previous : {FALSE},
     fromName : {FromNameOf(i)}, toName : {ToNameOf(i)}]

\* The pages of the two-widget runs.
SharedCfgs(i) ==
    [from : {EmptyVal}, to : {EmptyVal}, dataSelect : {"", "+0"},
     initRange : {DefaultInitRange, 1}, previous : BOOLEAN,
     fromName : {FromNameOf(i)}, toName : {ToNameOf(i)}]

EmptyObj == [k \in {} |-> 0]

Absent == -1

\* One property of an object, or none.
Prop(name, present, v) == IF present THEN name :> v ELSE EmptyObj

BlobRules == {"", "+7d", "+0"}

\* The from value of an object: the first of the current month (the value a
\* freshly built monthly widget holds).
BlobDates == {Absent, ValOfDay(today - 19)}

\* The to value of an object: a day of the month before.
BlobToDates == {Absent, ValOfDay(today - 31)}

\* Objects a host passes to setState: any of the keys of the first n widgets
\* and a key of another component.
Blobs(n) ==
    { Prop(selectName, r # "", r) @@ Prop("from", f # Absent, f)
        @@ Prop("to", t # Absent, t)
        @@ Prop("from2", n > 1 /\ f2 # Absent, f2)
        @@ Prop("to2", n > 1 /\ t2 # Absent, t2)
        @@ Prop("foo", x, 1) :
      r \in BlobRules, f \in BlobDates, t \in BlobToDates,
      f2 \in (IF n > 1 THEN BlobDates ELSE {Absent}),
      t2 \in (IF n > 1 THEN BlobToDates ELSE {Absent}), x \in BOOLEAN }

NoFn == [op |-> "none", date |-> 0, rule |-> "", out |-> 0, back |-> 0]

\* Reference dates of the function harness: FnSpan days from late in the
\* year before the current one to early in the year after it, at noon.
FnDates == {(today - 100 + k) * MinPerDay + NoonMin : k \in 0..FnSpan}

\* Rules startOfRange is given: the non-sentinel rules of the default set.
AlignRules == {RangeAt(k) : k \in 0..8}

\* Rules dateOffset is given: every token that matches.
OffsetRules == {t \in Tokens : RuleMatches(t)}

-----------------------------------------------------------------------------
(* The page.                                                               *)

Init ==
    /\ pc = "load"
    /\ today \in Todays
    /\ w = <<>>
    /\ data = EmptyObj
    /\ served = {}
    /\ ret = FALSE
    /\ removed = {}
    /\ sorRule = ""
    /\ clicks = 0
    /\ calls = 0
    /\ fn = NoFn

wids == DOMAIN w

\* $(...).daterange(args) over n matched elements: this.each builds them in
\* order and stops where a construction does not return.
\* The first element whose construction does not return, else the last one.
LastBuilt(n, b) ==
    IF \E i \in 1..n : b[i].hung
    THEN CHOOSE i \in 1..n : b[i].hung /\ \A j \in 1..(i - 1) : ~b[j].hung
    ELSE n

Constructed(n, b) ==
    /\ w' = [i \in 1..LastBuilt(n, b) |-> b[i].w]
    /\ pc' = IF b[LastBuilt(n, b)].hung THEN "hung" ELSE "idle"
    /\ sorRule' = b[LastBuilt(n, b)].sor

ConstructPage(n, cfgs) ==
    /\ pc = "load"
    /\ Constructed(n, [i \in 1..n |-> Build(cfgs[i])])
    /\ UNCHANGED <<today, data, served, ret, removed, clicks, calls, fn>>

Construct == \E cfg \in Cfgs(1) : ConstructPage(1, <<cfg>>)

ConstructTwo == \E c1 \in SharedCfgs(1), c2 \in SharedCfgs(2) : ConstructPage(2, <<c1, c2>>)

\* What a handler other than setState leaves of the last setState call.
Forget ==
    /\ data' = EmptyObj
    /\ served' = {}
    /\ ret' = FALSE
    /\ removed' = {}

Selected(i, r) ==
    /\ w' = [w EXCEPT ![i] = r.w]
    /\ sorRule' = r.sor

\* The user picks an option of the select.
SelectRule ==
    \E i \in wids, k \in 1..Len(ranges) :
        /\ pc = "idle"
        /\ Selected(i, SelectChange(w[i], ranges[k]))
        /\ Forget
        /\ UNCHANGED <<pc, today, clicks, calls, fn>>

\* A click on the up button.
GoUp ==
    \E i \in wids :
        /\ pc = "idle"
        /\ w[i].navBar
        /\ clicks < MaxClicks
        /\ w' = [w EXCEPT ![i] = Navigate(w[i], w[i].rule)]
        /\ clicks' = clicks + 1
        /\ sorRule' = ""
        /\ Forget
        /\ UNCHANGED <<pc, today, calls, fn>>

\* A click on the down button.
GoDown ==
    \E i \in wids :
        /\ pc = "idle"
        /\ w[i].navBar
        /\ clicks < MaxClicks
        /\ w' = [w EXCEPT ![i] = Navigate(w[i], invertRule(w[i].rule))]
        /\ clicks' = clicks + 1
        /\ sorRule' = ""
        /\ Forget
        /\ UNCHANGED <<pc, today, calls, fn>>

\* The host builds an object to hand to the widgets' setState handlers.
HostCallWith(blobs) ==
    /\ pc = "idle"
    /\ calls < MaxCalls
    /\ \E blob \in blobs : data' = blob
    /\ pc' = "call"
    /\ calls' = calls + 1
    /\ served' = {}
    /\ ret' = FALSE
    /\ removed' = {}
    /\ sorRule' = ""
    /\ UNCHANGED <<today, w, clicks, fn>>

HostCall == HostCallWith(Blobs(Cardinality(wids)))

Handled(i, r) ==
    /\ w' = [w EXCEPT ![i] = r.w]
    /\ data' = r.data
    /\ ret' = r.changed
    /\ removed' = r.removed
    /\ sorRule' = r.sor

\* triggerHandler('setState', [data]) on a widget not yet given the object.
SetState ==
    \E i \in wids \ served :
        /\ pc = "call"
        /\ Handled(i, setState(w[i], data))
        /\ served' = served \cup {i}
        /\ pc' = IF served' = wids THEN "idle" ELSE "call"
        /\ UNCHANGED <<today, clicks, calls, fn>>

Next == Construct \/ SelectRule \/ GoUp \/ GoDown \/ HostCall \/ SetState

Spec == Init /\ [][Next]_vars

NextShared == ConstructTwo \/ HostCall \/ SetState

SpecShared == Init /\ [][NextShared]_vars

-----------------------------------------------------------------------------
(* The functions on their own: a reference date and a rule are drawn, then *)
(* startOfRange (once, then again on its result) or dateOffset (then the   *)
(* inverse rule on its result) is applied.                                 *)

InitFn ==
    /\ pc = "fn"
    /\ today \in Todays
    /\ w = <<>>
    /\ data = EmptyObj
    /\ served = {}
    /\ ret = FALSE
    /\ removed = {}
    /\ sorRule = ""
    /\ clicks = 0
    /\ calls = 0
    /\ \E d \in FnDates, r \in OffsetRules :
           fn = [op |-> "args", date |-> d, rule |-> r, out |-> 0, back |-> 0]

FnFrame == UNCHANGED <<pc, today, w, data, served, ret, removed, sorRule, clicks, calls>>

FnAlign ==
    /\ fn.op = "args"
    /\ fn.rule \in AlignRules
    /\ fn' = [fn EXCEPT !.op = "startOfRange", !.out = startOfRange(fn.date, fn.rule)]
    /\ FnFrame

FnRealign ==
    /\ fn.op = "startOfRange"
    /\ fn' = [fn EXCEPT !.op = "realign", !.back = startOfRange(fn.out, fn.rule)]
    /\ FnFrame

FnOffset ==
    /\ fn.op = "args"
    /\ fn' = [fn EXCEPT !.op = "dateOffset", !.out = dateOffset(fn.date, fn.rule)]
    /\ FnFrame

FnInverse ==
    /\ fn.op = "dateOffset"
    /\ fn' = [fn EXCEPT !.op = "inverse",
                        !.back = dateOffset(fn.out, invertRule(fn.rule))]
    /\ FnFrame

NextFn == FnAlign \/ FnRealign \/ FnOffset \/ FnInverse

SpecFn == InitFn /\ [][NextFn]_vars

-----------------------------------------------------------------------------
(* startOfRange pass by pass: fn.out is tmp, fn.date is now, fn.pass the   *)
(* parity of the passes of the loop made so far.  The loop's own state is   *)
(* tmp alone (now and rule do not change), so a pass that leaves tmp as it  *)
(* was returns the loop to the state it was in: it never ends.             *)

\* Reference dates of the stepwise runs: every twentieth of FnDates.
LoopDates == {(today - 100 + 20 * k) * MinPerDay + NoonMin : k \in 0..(FnSpan \div 20)}

\* Rules of the stepwise runs: the tokens the expression matches that carry
\* a '+' sign.
LoopRules == {t \in OffsetRules : Grammar[t].sign = 1}

InitLoop ==
    /\ pc = "fn"
    /\ today \in Todays
    /\ w = <<>>
    /\ data = EmptyObj
    /\ served = {}
    /\ ret = FALSE
    /\ removed = {}
    /\ sorRule = ""
    /\ clicks = 0
    /\ calls = 0
    /\ \E d \in LoopDates, r \in LoopRules :
           fn = [op |-> "enter", date |-> d, rule |-> r, out |-> 0, back |-> 0,
                 pass |-> 0]

\* tmp = new Date(); ... ; the shift to a Sunday for the week rules.
LoopEnter ==
    /\ fn.op = "enter"
    /\ fn' = [fn EXCEPT !.op = "while", !.out = TilingStart(fn.rule)]
    /\ FnFrame

\* while (tmp <= now) { tmp = dateOffset(tmp, rule); }: one pass.
LoopPass ==
    /\ fn.op = "while"
    /\ fn.out <= fn.date
    /\ fn' = [fn EXCEPT !.out = dateOffset(fn.out, fn.rule), !.pass = 1 - fn.pass]
    /\ FnFrame

\* The loop ends; tmp = dateOffset(tmp, backRule); return tmp.
LoopExit ==
    /\ fn.op = "while"
    /\ ~(fn.out <= fn.date)
    /\ fn' = [fn EXCEPT !.op = "return",
                        !.back = dateOffset(fn.out, invertRule(fn.rule))]
    /\ FnFrame

NextLoop == LoopEnter \/ LoopPass \/ LoopExit

SpecLoop == InitLoop /\ [][NextLoop]_vars

-----------------------------------------------------------------------------
(* Properties.                                                             *)

\* The three names a widget's setState handler looks for.
Recognized(wr) == {selectName, wr.fromName, wr.toName}

\* The logical state of a widget.
Triple(wr) == <<wr.rule, wr.from, wr.to>>

\* A step in which widget i's setState handler runs on the object.
SetStateStep(i) == pc = "call" /\ i \notin served /\ i \in served'

\* C1: a setState call removes from the passed object every recognized key
\* (rule, from, to field of the widget) present in it, whether or not its value
\* differed from the current one, and leaves every other key present with its
\* value unchanged.
C1_ConsumesRecognizedKeys ==
    [][\A i \in wids :
         SetStateStep(i) =>
           /\ DOMAIN data' = (DOMAIN data) \ Recognized(w[i])
           /\ \A k \in DOMAIN data' : data'[k] = data[k]
           /\ removed' = (DOMAIN data) \cap Recognized(w[i])]_vars

\* C1 witness: the handler has run on an object that held two recognized keys
\* with the widget's current values and a foreign key: both are gone, the
\* foreign key is still there.
C1_Witness ==
    /\ served = {1}
    /\ ret = FALSE
    /\ Cardinality(removed) = 2
    /\ DOMAIN data = {"foo"}
    /\ data["foo"] = 1

\* C2: setState returns true exactly when the widget's (rule, from, to) after
\* the call differs from the one before it; a recognized key present with the
\* current value does not make the result true.
C2_ReturnsWhetherChanged ==
    [][\A i \in wids :
         SetStateStep(i) => (ret' = TRUE <=> Triple(w'[i]) # Triple(w[i]))]_vars

\* C2 witness: the handler has returned false on an object in which a
\* recognized key was present (and removed).
C2_Witness ==
    /\ served = {1}
    /\ ret = FALSE
    /\ removed = {w[1].fromName}
    /\ w[1].rule = "+1m"

\* C3: two widgets given the same object one after the other do not collide:
\* the final (rule, from, to) of both and the keys left in the object are the
\* same whichever widget's handler runs first.
C3_OrderIndependent ==
    (pc = "call" /\ served = {} /\ wids = {1, 2}) =>
        /\ Triple(setState(w[1], data).w)
             = Triple(setState(w[1], setState(w[2], data).data).w)
        /\ Triple(setState(w[2], data).w)
             = Triple(setState(w[2], setState(w[1], data).data).w)
        /\ setState(w[2], setState(w[1], data).data).data
             = setState(w[1], setState(w[2], data).data).data

\* C4: in every state of a built widget, whenever from and to are both set,
\* from <= to.
C4_FromNotAfterTo ==
    pc \in {"idle", "call"} =>
        \A i \in wids :
            (w[i].from # EmptyVal /\ w[i].to # EmptyVal) => w[i].from <= w[i].to

\* to as updateTo derives it from from and rule: dateOffset(from, rule) minus
\* one day.
Derived(wr) == wr.to = dateToVal(dateOffset(toDate(wr.from), wr.rule) - MinPerDay)

\* rule is not the sentinel and from is set.
Ruled(wr) == wr.rule # Sentinel /\ wr.from # EmptyVal

\* C5 as stated: in every state of a built widget, if the rule is not '+0' and
\* from is set, to equals dateOffset(from, rule) minus one day.
C5_ToAlwaysDerived ==
    pc \in {"idle", "call"} => \A i \in wids : Ruled(w[i]) => Derived(w[i])

\* A step that is the construction, a rule selection that changes the rule,
\* or an up/down click.
RangeStep ==
    \/ pc = "load"
    \/ clicks' # clicks
    \/ pc = "idle" /\ pc' = "idle" /\ \E i \in wids : w'[i].rule # w[i].rule

\* C5 amended: right after the construction, a rule selection that changes the
\* rule and an up/down click, if the rule is not '+0' and from is set, to
\* equals dateOffset(from, rule) minus one day.
C5_ToDerivedAfterRangeStep ==
    [][(RangeStep /\ pc' = "idle") =>
         \A i \in DOMAIN w' : Ruled(w'[i]) => Derived(w'[i])]_vars

\* C5 witness: an up click on a monthly widget built on 2016-02-20 has moved
\* from to March 1st, and to is March 31st.
C5_Witness ==
    /\ pc = "idle"
    /\ clicks = 1
    /\ calls = 0
    /\ w[1].rule = "+1m"
    /\ w[1].from = 20160301
    /\ w[1].to = 20160331

\* At most 2^k steps forward from boundary b while the next one is not after d.
RECURSIVE Tiles(_, _, _, _)
Tiles(b, d, rule, k) ==
    IF dateOffset(b, rule) > d THEN b
    ELSE IF k = 0 THEN dateOffset(b, rule)
    ELSE Tiles(Tiles(b, d, rule, k - 1), d, rule, k - 1)

\* January 1st of d's year at noon, the first Sunday of that year for the
\* week rules.
TilingStartOf(d, rule) ==
    IF rule = "+7d" \/ rule = "+14d"
    THEN FirstSunday(MakeDate(getFullYear(d), 0, 1, NoonMin), 1)
    ELSE MakeDate(getFullYear(d), 0, 1, NoonMin)

\* C6: startOfRange(D, rule) tiles from January 1st of D's year (the first
\* Sunday for '+7d' and '+14d') and returns the latest boundary B <= D, so that
\* B <= D < dateOffset(B, rule).
C6_LatestBoundary ==
    fn.op = "startOfRange" =>
        /\ fn.out <= fn.date
        /\ fn.date < dateOffset(fn.out, fn.rule)
        /\ TilingStartOf(fn.date, fn.rule) <= fn.date =>
             fn.out = Tiles(TilingStartOf(fn.date, fn.rule), fn.date, fn.rule, LoopDepth)

\* C7: startOfRange(startOfRange(D, R), R) = startOfRange(D, R) for every
\* non-sentinel rule of the default set.
C7_AlignIdempotent == fn.op = "realign" => fn.back = fn.out

\* The rule has no fractional part.
IntegerRule(rule) == Grammar[rule].den = 0

\* C8 as stated: dateOffset(dateOffset(D, R), invertRule(R)) = D for every date
\* D (any day of month) and every rule R without fractional part.
C8_InverseRestoresAnyDay ==
    (fn.op = "inverse" /\ IntegerRule(fn.rule)) => fn.back = fn.date

\* C8 amended: the same for every date D whose day of month is 1 to 28.
C8_InverseRestores ==
    (fn.op = "inverse" /\ IntegerRule(fn.rule) /\ getDate(fn.date) <= 28) =>
        fn.back = fn.date

\* C8 witness: one month forward and back from the 28th of February of a leap
\* year.
C8_Witness ==
    /\ fn.op = "inverse"
    /\ fn.rule = "+1m"
    /\ dateToVal(fn.date) = 20160228
    /\ dateToVal(fn.out) = 20160328
    /\ fn.back = fn.date

\* C9: startOfRange(D, '+7d') is a Sunday for every reference date D.
C9_WeekStartsSunday ==
    (fn.op = "startOfRange" /\ fn.rule = "+7d") => getDay(fn.out) = 0

\* C9 witness: for Saturday 2016-02-20 the result is Sunday 2016-02-14.
C9_Witness ==
    /\ fn.op = "startOfRange"
    /\ fn.rule = "+7d"
    /\ dateToVal(fn.date) = 20160220
    /\ dateToVal(fn.out) = 20160214
    /\ getDay(fn.out) = 0

\* C10: no handler passes the sentinel rule to startOfRange.
C10_NeverSentinel == sorRule # Sentinel

\* C11: startOfRange terminates for every reference date and every
\* non-sentinel token the expression of dateOffset accepts: whenever the
\* advance loop is about to make a pass (tmp <= now), the pass moves the
\* candidate strictly forward, so that it eventually exceeds the reference.
C11_EveryPassAdvances ==
    (fn.op = "while" /\ fn.out <= fn.date) => dateOffset(fn.out, fn.rule) > fn.out

=============================================================================
